---- MODULE Spec2Model ----
(***************************************************************************)
(* Model of the Webflow content manager (src/app.py): the extraction of    *)
(* translatable nodes from a page document (parse_page_content), the       *)
(* translation call (translate_content_with_openai), the construction of   *)
(* the write request and the write call (update_page_content), and the     *)
(* per-locale loop of main.                                                *)
(*                                                                         *)
(* JSON values are records.  A key that a JSON object does not carry is    *)
(* modelled by the value Absent (for a string field) or by a flag (hasPO,  *)
(* for the propertyOverrides list).                                        *)
(***************************************************************************)
EXTENDS Integers, Sequences, FiniteSets, TLC

VARIABLES
    \* --- parse_page_content applied to a document
    document,       \* the argument `content`: a sequence of raw nodes
    extractResult,  \* what the call produced: NotCalled, a return or a raise
    \* --- translate_content_with_openai applied to arguments
    tArgs,          \* [nodes, tag, key]: the three arguments
    tPc,            \* "idle" | "start" | "waiting" (service call outstanding) | "returned"
    tCalls,         \* number of requests sent to the translation service
    tReply,         \* the reply the service gave (NoReply before it arrives)
    tRet,           \* the pair (translated_json, error) the function returned
    \* --- the request body built by update_page_content
    wIn,            \* the argument translated_content
    wOut,           \* NotCalled, the request body, or a raise
    \* --- a session of main: st.session_state and the loop of lines 464-511
    current_content,   \* st.session_state.current_content
    parsed_nodes,      \* st.session_state.parsed_nodes
    selected_page,     \* the value of the page selectbox (line 407), a text
    pc,                \* "idle" | "faulted" (a script run ended by an exception) |
                       \* "translating" | "writing" (a request is outstanding) |
                       \* "completed" (line 511) | "aborted" (the loop raised)
    target_languages,  \* the selected locales, in the order of selection
    index,             \* position in target_languages of the locale in hand
    outstanding,       \* the external requests sent and not yet answered
    calls,             \* the external requests of this run, in order
    responses,         \* the answers to them, in order
    status,            \* per selected locale: what the operator was shown
    remote             \* per locale: the body of the last write that succeeded

extractVars == <<document, extractResult>>
translateVars == <<tArgs, tPc, tCalls, tReply, tRet>>
payloadVars == <<wIn, wOut>>
sessionVars == <<current_content, parsed_nodes, selected_page, pc, target_languages, index,
                 outstanding, calls, responses, status, remote>>

vars == <<extractVars, translateVars, payloadVars, sessionVars>>

\* ------------------------------------------------------------------ bounds
MaxNodes == 2       \* nodes of a document
MaxOverrides == 2   \* property overrides of a document, over all its nodes
MaxLocales == 2     \* locales selected for one run

\* ------------------------------------------------------------------ values
Absent == "<absent>"          \* the key is not in the JSON object
NodeIds == {"a", "b"}
PropIds == {"p1", "p2"}

SeqsUpTo(S, n) == UNION {[1..k -> S] : k \in 0..n}

\* The value stored under an override's 'text' key (src/app.py:142 reads it):
\*   absent   the override has no 'text' key
\*   obj      a sub-object carrying its own 'text' key, with value val
\*   objnokey a sub-object without a 'text' key
\*   str      a plain string (not a sub-object)
TextField(kind, val) == [kind |-> kind, val |-> val]

RawOverride(pid, text) == [propertyId |-> pid, text |-> text]

RawOverrideSet ==
    { RawOverride("p1", TextField("obj", "Hello")),
      RawOverride("p2", TextField("objnokey", "")),
      RawOverride("p1", TextField("absent", "")),
      RawOverride(Absent, TextField("obj", "Hello")),
      RawOverride("p2", TextField("str", "Hello")) }

\* A node of the document: 'id' may be missing, 'propertyOverrides' may be
\* missing (hasPO = FALSE), empty, or a list of overrides.
RawNode(id, hasPO, ovs) == [id |-> id, hasPO |-> hasPO, propertyOverrides |-> ovs]

\* A document is drawn as its parts: the nodes' ids, whether each carries a
\* 'propertyOverrides' key, how many overrides each holds, and the overrides
\* of all nodes in one row.  At most MaxNodes nodes, at most MaxOverrides
\* overrides in all.
RECURSIVE SumTo(_, _)
SumTo(counts, i) == IF i = 0 THEN 0 ELSE counts[i] + SumTo(counts, i - 1)

BuildDocument(ids, flags, counts, row) ==
    [i \in 1..Len(ids) |->
        RawNode(ids[i], flags[i],
                [k \in 1..counts[i] |-> row[SumTo(counts, i - 1) + k]])]

\* ------------------------------------------------------------------ results
NotCalled == [state |-> "notcalled"]
Returned(v) == [state |-> "returned", value |-> v]
Raised(e)   == [state |-> "raised", error |-> e]

\* --------------------------------------------------------- parse_page_content
\* dict.get('text', '') on the value under 'text' (line 142): a sub-object
\* gives its 'text' or '', anything else has no .get and raises.
UnwrapText(t) ==
    CASE t.kind = "obj"      -> Returned(t.val)
      [] t.kind = "objnokey" -> Returned("")
      [] OTHER               -> Raised("AttributeError")

\* Line 139: 'propertyId' in override and 'text' in override.
HasBothFields(o) == o.propertyId /= Absent /\ o.text.kind /= "absent"

\* ParseOverrides, were it to leave out an override whose text unwraps to ''.
RECURSIVE ParseOverridesSkipEmpty(_, _)
ParseOverridesSkipEmpty(ovs, acc) ==
    IF ovs = <<>> THEN Returned(acc)
    ELSE LET o == Head(ovs) IN
         IF HasBothFields(o)
         THEN LET u == UnwrapText(o.text) IN
              IF u.state = "raised" THEN u
              ELSE IF u.value = "" THEN ParseOverridesSkipEmpty(Tail(ovs), acc)
              ELSE ParseOverridesSkipEmpty(Tail(ovs),
                       Append(acc, [propertyId |-> o.propertyId, text |-> u.value]))
         ELSE ParseOverridesSkipEmpty(Tail(ovs), acc)

\* Lines 138-144: the inner loop, appending to node_data["propertyOverrides"].
\* acc is the list built so far; the first raise ends the loop.
RECURSIVE ParseOverrides(_, _)
ParseOverrides(ovs, acc) ==
    IF ovs = <<>> THEN Returned(acc)
    ELSE LET o == Head(ovs) IN
         IF HasBothFields(o)
         THEN LET u == UnwrapText(o.text) IN
              IF u.state = "raised" THEN u
              ELSE ParseOverrides(Tail(ovs),
                       Append(acc, [propertyId |-> o.propertyId, text |-> u.value]))
         ELSE ParseOverrides(Tail(ovs), acc)

\* Line 131: node.get('propertyOverrides') is truthy.
HasOverrides(node) == node.hasPO /\ node.propertyOverrides /= <<>>

\* ParseNodes, were it to append a node without the test of line 146.
RECURSIVE ParseNodesKeepEmpty(_, _)
ParseNodesKeepEmpty(nodes, acc) ==
    IF nodes = <<>> THEN Returned(acc)
    ELSE LET node == Head(nodes) IN
         IF HasOverrides(node)
         THEN IF node.id = Absent THEN Raised("KeyError")
              ELSE LET r == ParseOverrides(node.propertyOverrides, <<>>) IN
                   IF r.state = "raised" THEN r
                   ELSE ParseNodesKeepEmpty(Tail(nodes),
                            Append(acc, [nodeId |-> node.id,
                                         propertyOverrides |-> r.value]))
         ELSE ParseNodesKeepEmpty(Tail(nodes), acc)

\* Lines 129-147: the outer loop, appending to parsed_nodes.
RECURSIVE ParseNodes(_, _)
ParseNodes(nodes, acc) ==
    IF nodes = <<>> THEN Returned(acc)
    ELSE LET node == Head(nodes) IN
         IF HasOverrides(node)
         THEN IF node.id = Absent THEN Raised("KeyError")
              ELSE LET r == ParseOverrides(node.propertyOverrides, <<>>) IN
                   IF r.state = "raised" THEN r
                   ELSE IF r.value /= <<>>
                        THEN ParseNodes(Tail(nodes),
                                 Append(acc, [nodeId |-> node.id,
                                              propertyOverrides |-> r.value]))
                        ELSE ParseNodes(Tail(nodes), acc)
         ELSE ParseNodes(Tail(nodes), acc)

parse_page_content(content) == ParseNodes(content, <<>>)

\* ---------------------------------------------- translate_content_with_openai
\* An extracted or translated node.  In a translated node, which is whatever
\* JSON the service wrote, any key may be missing.
Node(id, hasPO, ovs) == [nodeId |-> id, hasPO |-> hasPO, propertyOverrides |-> ovs]
Override(pid, text) == [propertyId |-> pid, text |-> text]

\* A parsed JSON value: a list of nodes, or anything else (an object such as
\* {"translation": "Bonjour"}), or Python's None.
JList(nodes) == [shape |-> "list", nodes |-> nodes]
JOther == [shape |-> "other", nodes |-> <<>>]
None == [shape |-> "none", nodes |-> <<>>]

\* The error half of the returned pair: None, or a message and its detail.
NoError == [msg |-> "", detail |-> ""]
Error(msg, detail) == [msg |-> msg, detail |-> detail]

EmptyContent == "No content to translate"                          \* line 181
MissingTarget == "No target language specified"                    \* line 183
MissingCredentials == "OpenAI API key is missing"                  \* line 185
EmptyResponse == "Empty response from OpenAI"                      \* line 224
MalformedResponse == "Failed to parse OpenAI response as JSON"     \* line 234
ServiceError == "OpenAI API Error"                                 \* line 238

\* The JSON texts the service is taken to write, each with the value
\* json.loads gives for it.  Any other text is not JSON.
JsonTexts ==
    { [raw |-> "[{\"nodeId\":\"a\",\"propertyOverrides\":[{\"propertyId\":\"p1\",\"text\":\"Bonjour\"}]}]",
       value |-> JList(<<Node("a", TRUE, <<Override("p1", "Bonjour")>>)>>)],
      [raw |-> "[{\"nodeId\":\"a\",\"propertyOverrides\":[{\"propertyId\":\"p1\",\"text\":\"Bonjour\"}]},{\"nodeId\":\"b\",\"propertyOverrides\":[{\"propertyId\":\"p1\",\"text\":\"Salut\"}]}]",
       value |-> JList(<<Node("a", TRUE, <<Override("p1", "Bonjour")>>),
                         Node("b", TRUE, <<Override("p1", "Salut")>>)>>)],
      [raw |-> "[{\"nodeId\":\"zz\",\"propertyOverrides\":[{\"propertyId\":\"p1\",\"text\":\"Bonjour\"}]}]",
       value |-> JList(<<Node("zz", TRUE, <<Override("p1", "Bonjour")>>)>>)],
      [raw |-> "[{\"nodeId\":\"a\"}]",
       value |-> JList(<<Node("a", FALSE, <<>>)>>)],
      [raw |-> "[{\"nodeId\":\"a\",\"propertyOverrides\":[]}]",
       value |-> JList(<<Node("a", TRUE, <<>>)>>)],
      [raw |-> "[]",
       value |-> JList(<<>>)],
      [raw |-> "[{\"propertyOverrides\":[{\"propertyId\":\"p1\",\"text\":\"Bonjour\"}]}]",
       value |-> JList(<<Node(Absent, TRUE, <<Override("p1", "Bonjour")>>)>>)],
      [raw |-> "[{\"nodeId\":\"a\",\"propertyOverrides\":[{\"propertyId\":\"p1\"}]}]",
       value |-> JList(<<Node("a", TRUE, <<Override("p1", Absent)>>)>>)],
      [raw |-> "{\"translation\":\"Bonjour\"}",
       value |-> JOther] }

NotJson == "Sorry, I can't help"

\* What the service call of lines 208-222 can give: an exception, no
\* content, or a text.
ServiceReply(kind, raw) == [kind |-> kind, raw |-> raw]

ServiceReplies ==
    { ServiceReply("exception", "Request timed out."),
      ServiceReply("empty", ""),
      ServiceReply("text", NotJson) }
    \cup { ServiceReply("text", j.raw) : j \in JsonTexts }

\* json.loads (line 228): the value of a JSON text, JSONDecodeError otherwise.
JsonLoads(raw) ==
    IF \E j \in JsonTexts : j.raw = raw
    THEN Returned((CHOOSE j \in JsonTexts : j.raw = raw).value)
    ELSE Raised("Expecting value: line 1 column 1 (char 0)")

\* TranslatePrecheck, were it to lack the test of the key (lines 184-185).
TranslatePrecheckNoKey(nodes, tag, key) ==
    IF nodes = <<>> THEN EmptyContent
    ELSE IF tag = "" THEN MissingTarget
    ELSE ""

\* Lines 180-185: the message of the first failed test, "" when all pass.
TranslatePrecheck(nodes, tag, key) ==
    IF nodes = <<>> THEN EmptyContent
    ELSE IF tag = "" THEN MissingTarget
    ELSE IF key = "" THEN MissingCredentials
    ELSE ""

\* Lines 207-238: the pair returned once the service call has ended.
TranslateResult(reply) ==
    IF reply.kind = "exception"
    THEN [content |-> None, error |-> Error(ServiceError, reply.raw)]
    ELSE IF reply.kind = "empty"
    THEN [content |-> None, error |-> Error(EmptyResponse, "")]
    ELSE LET parsed == JsonLoads(reply.raw) IN
         IF parsed.state = "returned"
         THEN [content |-> parsed.value, error |-> NoError]
         ELSE [content |-> None, error |-> Error(MalformedResponse, parsed.error)]

\* The extracted-node arguments tried.
ExtractedInputs ==
    { <<>>,
      <<Node("a", TRUE, <<Override("p1", "Hello")>>)>>,
      <<Node("b", TRUE, <<Override("p2", "")>>)>>,
      <<Node("a", TRUE, <<Override("p1", "Hello"), Override("p2", "")>>),
        Node("b", TRUE, <<Override("p1", "Hello")>>)>> }

Tags == {"", "fr", "de"}
Keys == {"", "sk-test"}

\* --------------------------------------------------------- update_page_content
\* An entry of request_body["nodes"]: the 'propertyOverrides' key is there
\* only when line 265 put it there.
EntryIdOnly(id) == [nodeId |-> id]
Entry(id, ovs) == [nodeId |-> id, propertyOverrides |-> ovs]

\* Lines 266-270: the inner loop; override["propertyId"] and override["text"]
\* raise KeyError on a missing key.
RECURSIVE BuildOverrides(_, _)
BuildOverrides(ovs, acc) ==
    IF ovs = <<>> THEN Returned(acc)
    ELSE LET o == Head(ovs) IN
         IF o.propertyId = Absent \/ o.text = Absent THEN Raised("KeyError")
         ELSE BuildOverrides(Tail(ovs),
                  Append(acc, [propertyId |-> o.propertyId, text |-> o.text]))

\* BuildEntry, were line 264 to test the list for being non-empty.
BuildEntryTruthy(node) ==
    IF node.nodeId = Absent THEN Raised("KeyError")
    ELSE IF node.hasPO /\ node.propertyOverrides /= <<>>
    THEN LET r == BuildOverrides(node.propertyOverrides, <<>>) IN
         IF r.state = "raised" THEN r ELSE Returned(Entry(node.nodeId, r.value))
    ELSE Returned(EntryIdOnly(node.nodeId))

\* Lines 260-270: node_data of one node; node["nodeId"] raises KeyError on a
\* missing key.
BuildEntry(node) ==
    IF node.nodeId = Absent THEN Raised("KeyError")
    ELSE IF node.hasPO
    THEN LET r == BuildOverrides(node.propertyOverrides, <<>>) IN
         IF r.state = "raised" THEN r ELSE Returned(Entry(node.nodeId, r.value))
    ELSE Returned(EntryIdOnly(node.nodeId))

\* Lines 259-272: the outer loop over the nodes of a list.
RECURSIVE BuildEntries(_, _)
BuildEntries(nodes, acc) ==
    IF nodes = <<>> THEN Returned(acc)
    ELSE LET e == BuildEntry(Head(nodes)) IN
         IF e.state = "raised" THEN e
         ELSE BuildEntries(Tail(nodes), Append(acc, e.value))

\* Lines 253-272: request_body["nodes"] for the argument translated_content.
\* None is not iterable, and iterating an object gives its keys, strings,
\* which node["nodeId"] cannot index: TypeError in both cases.
BuildRequestBody(content) ==
    IF content.shape = "list" THEN BuildEntries(content.nodes, <<>>)
    ELSE Raised("TypeError")

\* The translated nodes tried: a nodeId, and no overrides key, an empty list
\* or overrides that carry a propertyId and a text.
TranslatedOverrideLists ==
    { <<>>,
      <<Override("p1", "Bonjour")>>,
      <<Override("p2", "")>>,
      <<Override("p1", "Bonjour"), Override("p2", "Salut")>>,
      <<Override("p2", "Salut"), Override("p1", "Bonjour")>> }

TranslatedNodeSet ==
    { Node(id, FALSE, <<>>) : id \in NodeIds }
    \cup { Node(id, TRUE, ovs) : id \in NodeIds, ovs \in TranslatedOverrideLists }

\* The arguments tried: the lists of at most MaxNodes translated nodes, and
\* the values of the JSON texts, and None.
PayloadInputs ==
    { JList(nodes) : nodes \in SeqsUpTo(TranslatedNodeSet, MaxNodes) }
    \cup { j.value : j \in JsonTexts } \cup { None }

\* ------------------------------------------------------------------- main
\* st.session_state.locales: display name, tag and id of each locale.  The
\* label is the key of locale_options (line 438).
Locale(label, tag, id) == [label |-> label, tag |-> tag, id |-> id]

Locales ==
    { Locale("French (fr)", "fr", "loc-fr"),
      Locale("German (de)", "de", "loc-de"),
      Locale("Spanish (es)", "es", "loc-es"),
      Locale("Draft ()", "", "loc-draft") }

Labels == { l.label : l \in Locales }

\* locale_options[label] (lines 437-443).
LocaleOption(label) == CHOOSE l \in Locales : l.label = label

\* The selections a multiselect can give: distinct labels, in order.
Selections ==
    { sel \in SeqsUpTo(Labels, MaxLocales) :
        sel /= <<>> /\ \A i, j \in 1..Len(sel) : i /= j => sel[i] /= sel[j] }

\* The selected page and the two keys of the session.
\* st.session_state.pages: title and id of each page, texts being sequences
\* of characters.
Page(title, id) == [title |-> title, id |-> id]

Pages ==
    { Page(<<"H", "o", "m", "e">>, <<"6", "a", "1">>),
      Page(<<"F", "A", "Q", " ", "(", "n", "e", "w", ")">>, <<"6", "b", "2">>) }

\* Line 409: f"{title} ({id})", an option of the page selectbox.
PageLabel(page) == page.title \o <<" ", "(">> \o page.id \o <<")">>

\* s.split('(')[-1]: what follows the last '(' of s, all of s if it has none.
AfterLastParen(s) ==
    LET at == { i \in 1..Len(s) : s[i] = "(" } IN
    IF at = {} THEN s
    ELSE SubSeq(s, (CHOOSE i \in at : \A j \in at : j <= i) + 1, Len(s))

\* s.split('(')[1]: what lies between the first '(' of s and the next.
AfterFirstParen(s) ==
    LET at == { i \in 1..Len(s) : s[i] = "(" }
        first == CHOOSE i \in at : \A j \in at : i <= j
        rest == { j \in at : j > first } IN
    IF rest = {} THEN SubSeq(s, first + 1, Len(s))
    ELSE SubSeq(s, first + 1, (CHOOSE i \in rest : \A j \in rest : i <= j) - 1)

\* s.strip(')'): s without the ')' at its two ends.
RECURSIVE StripParens(_)
StripParens(s) ==
    IF s = <<>> THEN s
    ELSE IF Head(s) = ")" THEN StripParens(Tail(s))
    ELSE IF s[Len(s)] = ")" THEN StripParens(SubSeq(s, 1, Len(s) - 1))
    ELSE s

\* PageIdOf, were it to take the second piece of the split, not the last.
PageIdOfFirstSplit(label) == StripParens(AfterFirstParen(label))

\* Line 414: page_id = selected_page.split('(')[-1].strip(')').
PageIdOf(label) == StripParens(AfterLastParen(label))
OpenAIKey == "sk-test"

\* The documents the content read is taken to give.
ViewDocuments ==
    { <<>>,
      <<RawNode("a", TRUE, <<RawOverride("p1", TextField("obj", "Hello"))>>)>>,
      <<RawNode("a", TRUE, <<RawOverride("p1", TextField("obj", "Hello")),
                             RawOverride("p2", TextField("objnokey", ""))>>),
        RawNode("b", FALSE, <<>>)>>,
      <<RawNode(Absent, TRUE, <<RawOverride("p1", TextField("obj", "Hello"))>>)>> }

\* st.session_state.parsed_nodes: None (line 324) or a list.
NoneNodes == [set |-> FALSE, nodes |-> <<>>]
SomeNodes(nodes) == [set |-> TRUE, nodes |-> nodes]

\* What the operator is shown for a locale.
Pending == [kind |-> "pending", detail |-> ""]
Success == [kind |-> "success", detail |-> ""]                   \* line 500
TranslateFailed(error) == [kind |-> "translate_error", detail |-> error]  \* line 477
WriteFailed(detail) == [kind |-> "write_error", detail |-> detail]        \* line 502

\* What the write request can meet (lines 289-305): success, a status that
\* raise_for_status rejects, or an exception of the transport.
WriteOutcomes == {"ok", "403 Client Error: Forbidden", "Connection aborted."}

NoBody == [written |-> FALSE, body |-> <<>>]
Body(b) == [written |-> TRUE, body |-> b]

\* An external request of the loop: the call of the translation service
\* (line 208) with the nodes and the tag it is given, or the write (line 289)
\* with the page, the locale id and the body it is given.
TranslateRequest(label, nodes, tag) ==
    [kind |-> "translate", locale |-> label, nodes |-> nodes, tag |-> tag,
     page |-> <<>>, localeId |-> "", body |-> <<>>]
WriteRequest(label, page, localeId, body) ==
    [kind |-> "write", locale |-> label, nodes |-> <<>>, tag |-> "",
     page |-> page, localeId |-> localeId, body |-> body]

Response(kind, label, outcome) == [kind |-> kind, locale |-> label, outcome |-> outcome]

\* LocaleAt, were the loop to run over the selection from its end.
LocaleAtReversed(sel, i) == sel[Len(sel) + 1 - i]

\* Line 464: target_languages[index], the loop taking them in order.
LocaleAt(sel, i) == sel[i]

\* Lines 464-478 from locale i on, up to the first request to the service:
\* a locale whose call fails a test of lines 180-185 is reported and the loop
\* goes on (continue); past the last locale the run is completed (line 511).
RECURSIVE RunFrom(_, _, _, _)
RunFrom(sel, i, nodes, st) ==
    IF i > Len(sel) THEN [pc |-> "completed", index |-> i, status |-> st]
    ELSE LET label == LocaleAt(sel, i)
             e == TranslatePrecheck(nodes, LocaleOption(label).tag, OpenAIKey) IN
         IF e /= ""
         THEN RunFrom(sel, i + 1, nodes,
                      [st EXCEPT ![label] = TranslateFailed(Error(e, ""))])
         ELSE [pc |-> "translating", index |-> i, status |-> st]

\* ------------------------------------------------------------ idle values
IdleExtract == document = <<>> /\ extractResult = NotCalled

IdleTranslate ==
    /\ tArgs = [nodes |-> <<>>, tag |-> "", key |-> ""]
    /\ tPc = "idle"
    /\ tCalls = 0
    /\ tReply = [kind |-> "noreply"]
    /\ tRet = NotCalled

IdlePayload == wIn = [shape |-> "list", nodes |-> <<>>] /\ wOut = NotCalled

\* Lines 311-324: the session state of a new session.
IdleSession ==
    /\ current_content = [set |-> FALSE, nodes |-> <<>>]
    /\ parsed_nodes = NoneNodes
    /\ selected_page = <<>>
    /\ pc = "idle"
    /\ target_languages = <<>>
    /\ index = 0
    /\ outstanding = {}
    /\ calls = <<>>
    /\ responses = <<>>
    /\ status = [l \in {} |-> Pending]
    /\ remote = [l \in Labels |-> NoBody]

\* ------------------------------------------------- SpecExtract: the function
InitExtract ==
    /\ \E n \in 0..MaxNodes :
       \E ids \in [1..n -> NodeIds \cup {Absent}] :
       \E counts \in [1..n -> 0..MaxOverrides] :
       \E flags \in [1..n -> BOOLEAN] :
          /\ SumTo(counts, n) <= MaxOverrides
          /\ \A i \in 1..n : counts[i] > 0 => flags[i]
          /\ \E row \in [1..SumTo(counts, n) -> RawOverrideSet] :
                document = BuildDocument(ids, flags, counts, row)
    /\ extractResult = NotCalled
    /\ IdleTranslate
    /\ IdlePayload
    /\ IdleSession

Extract ==
    /\ extractResult = NotCalled
    /\ extractResult' = parse_page_content(document)
    /\ UNCHANGED <<document, translateVars, payloadVars, sessionVars>>

NextExtract == Extract

SpecExtract == InitExtract /\ [][NextExtract]_vars

\* ------------------------------------------------------- Spec: a session
Init ==
    /\ IdleExtract
    /\ IdleTranslate
    /\ IdlePayload
    /\ IdleSession

\* The script is not in the loop and the run has not been made.
Resting == pc \in {"idle", "faulted"}

\* The argument main passes for parsed_nodes (line 471): None and the empty
\* list both fail the test of line 180.
NodesArgument == parsed_nodes.nodes

\* The request to the service for the locale the loop stands at.
TranslateRequestAt(sel, i) ==
    TranslateRequest(LocaleAt(sel, i), NodesArgument, LocaleOption(LocaleAt(sel, i)).tag)

\* The loop goes on from locale i (RunFrom) and stops at the next request to
\* the service, or is completed.
ContinueFrom(sel, i, st, log) ==
    LET r == RunFrom(sel, i, NodesArgument, st) IN
    /\ pc' = r.pc
    /\ index' = r.index
    /\ status' = r.status
    /\ IF r.pc = "translating"
       THEN /\ outstanding' = { TranslateRequestAt(sel, r.index) }
            /\ calls' = Append(log, TranslateRequestAt(sel, r.index))
       ELSE /\ outstanding' = {}
            /\ calls' = log

\* Lines 417-422, the content read succeeding: current_content is set, then
\* parse_page_content is applied; if it raises, the script run ends there and
\* parsed_nodes keeps its value.
ViewContentOk ==
    /\ Resting
    /\ \E doc \in ViewDocuments :
          /\ current_content' = [set |-> TRUE, nodes |-> doc]
          /\ LET r == parse_page_content(doc) IN
             IF r.state = "returned"
             THEN parsed_nodes' = SomeNodes(r.value) /\ pc' = "idle"
             ELSE UNCHANGED parsed_nodes /\ pc' = "faulted"
    /\ UNCHANGED <<extractVars, translateVars, payloadVars, selected_page,
                   target_languages, index, outstanding, calls, responses, status,
                   remote>>

\* Lines 417-420, the content read failing: get_page_content gives None.
ViewContentFail ==
    /\ Resting
    /\ pc' = "idle"
    /\ UNCHANGED <<extractVars, translateVars, payloadVars, current_content,
                   parsed_nodes, selected_page, target_languages, index,
                   outstanding, calls, responses, status, remote>>

\* Lines 407-414 and 425-474: with a page selected, content on display and a
\* selection of locales made, the button starts the loop, which runs to its
\* first request to the service.
StartRun ==
    /\ Resting
    /\ current_content.set
    /\ \E page \in Pages : selected_page' = PageLabel(page)
    /\ \E sel \in Selections :
          /\ target_languages' = sel
          /\ ContinueFrom(sel, 1, [l \in {sel[i] : i \in 1..Len(sel)} |-> Pending], <<>>)
    /\ responses' = <<>>
    /\ UNCHANGED <<extractVars, translateVars, payloadVars, current_content,
                   parsed_nodes, remote>>

\* Lines 216-238 and 476-497 and 253-289: the service call ends.  An error is
\* reported and the loop goes on; otherwise update_page_content builds the
\* request body, which ends the script run if it raises, and sends the write.
TranslateDone ==
    /\ pc = "translating"
    /\ \E reply \in ServiceReplies :
          LET label == LocaleAt(target_languages, index)
              ret == TranslateResult(reply) IN
          /\ responses' = Append(responses, Response("translate", label, reply.raw))
          /\ IF ret.error /= NoError
             THEN ContinueFrom(target_languages, index + 1,
                      [status EXCEPT ![label] = TranslateFailed(ret.error)], calls)
             ELSE LET built == BuildRequestBody(ret.content) IN
                  IF built.state = "raised"
                  THEN /\ pc' = "aborted"
                       /\ outstanding' = {}
                       /\ UNCHANGED <<index, status, calls>>
                  ELSE LET req == WriteRequest(label, PageIdOf(selected_page),
                                      LocaleOption(label).id, built.value) IN
                       /\ pc' = "writing"
                       /\ outstanding' = {req}
                       /\ calls' = Append(calls, req)
                       /\ UNCHANGED <<index, status>>
    /\ UNCHANGED <<extractVars, translateVars, payloadVars, current_content,
                   parsed_nodes, selected_page, target_languages, remote>>

\* WriteDone, were a failed write to be sent again.
WriteDoneRetry ==
    /\ pc = "writing"
    /\ \E outcome \in WriteOutcomes :
          LET label == LocaleAt(target_languages, index)
              req == CHOOSE r \in outstanding : TRUE IN
          /\ responses' = Append(responses, Response("write", label, outcome))
          /\ IF outcome = "ok"
             THEN /\ remote' = [remote EXCEPT ![label] = Body(req.body)]
                  /\ ContinueFrom(target_languages, index + 1,
                         [status EXCEPT ![label] = Success], calls)
             ELSE /\ Len(calls) < 2 * MaxLocales + 2
                  /\ calls' = Append(calls, req)
                  /\ UNCHANGED <<remote, pc, index, status, outstanding>>
    /\ UNCHANGED <<extractVars, translateVars, payloadVars, current_content,
                   parsed_nodes, selected_page, target_languages>>

\* Lines 289-305 and 499-511: the write ends; success or failure is reported,
\* and the loop goes on.
WriteDone ==
    /\ pc = "writing"
    /\ \E outcome \in WriteOutcomes :
          LET label == LocaleAt(target_languages, index)
              req == CHOOSE r \in outstanding : TRUE IN
          /\ responses' = Append(responses, Response("write", label, outcome))
          /\ remote' = IF outcome = "ok"
                       THEN [remote EXCEPT ![label] = Body(req.body)]
                       ELSE remote
          /\ ContinueFrom(target_languages, index + 1,
                 [status EXCEPT ![label] =
                     IF outcome = "ok" THEN Success ELSE WriteFailed(outcome)], calls)
    /\ UNCHANGED <<extractVars, translateVars, payloadVars, current_content,
                   parsed_nodes, selected_page, target_languages>>

Next == ViewContentOk \/ ViewContentFail \/ StartRun \/ TranslateDone \/ WriteDone

Spec == Init /\ [][Next]_vars

\* --------------------------------------------------------- claims on the run
Selected == { target_languages[i] : i \in 1..Len(target_languages) }

\* The place of a selected locale in the selection.
Pos(label) == CHOOSE i \in 1..Len(target_languages) : target_languages[i] = label

\* The (nodeId, propertyId) pairs of extracted nodes, of a parsed reply and of
\* a request body.
PairsOfNodes(nodes) ==
    UNION { { <<nodes[i].nodeId, nodes[i].propertyOverrides[k].propertyId>> :
                k \in 1..Len(nodes[i].propertyOverrides) } : i \in 1..Len(nodes) }

PairsOfBody(body) ==
    UNION { IF "propertyOverrides" \in DOMAIN body[i]
            THEN { <<body[i].nodeId, body[i].propertyOverrides[k].propertyId>> :
                      k \in 1..Len(body[i].propertyOverrides) }
            ELSE {} : i \in 1..Len(body) }

\* The reply of the service is a list that names a pair the extracted nodes
\* do not have.
ForeignPairReply(raw) ==
    LET parsed == JsonLoads(raw) IN
    /\ parsed.state = "returned"
    /\ parsed.value.shape = "list"
    /\ ~(PairsOfNodes(parsed.value.nodes) \subseteq PairsOfNodes(parsed_nodes.nodes))

\* C1: for every selected locale, a translation result with a (nodeId,
\* propertyId) pair that the extracted nodes do not have is rejected as
\* MalformedResponse for that locale and is never passed to the write call.
C1_ForeignPairNeverWritten ==
    /\ \A i \in 1..Len(calls) :
          calls[i].kind = "write" =>
             PairsOfBody(calls[i].body) \subseteq PairsOfNodes(parsed_nodes.nodes)
    /\ \A j \in 1..Len(responses) :
          (responses[j].kind = "translate" /\ ForeignPairReply(responses[j].outcome)) =>
             /\ status[responses[j].locale].kind = "translate_error"
             /\ status[responses[j].locale].detail.msg = MalformedResponse

\* C2: a failure in the cycle of one locale is reported against that locale
\* and does not abort the run: a run that has stopped is completed, every
\* selected locale has its success or its failure, and a locale whose write
\* succeeded is shown as a success.
C2_RunCompletesDespiteFailures ==
    pc \in {"completed", "aborted"} =>
        /\ pc = "completed"
        /\ \A l \in Selected : status[l].kind /= "pending"
        /\ \A j \in 1..Len(responses) :
              (responses[j].kind = "write" /\ responses[j].outcome = "ok") =>
                 status[responses[j].locale] = Success

\* The write calls of the run for a locale.
WriteCalls(label) ==
    { i \in 1..Len(calls) : calls[i].kind = "write" /\ calls[i].locale = label }

\* C9: in a run at most one write call is sent per selected locale; a write
\* that fails is shown as a failure with its detail and is not sent again;
\* a write that succeeded stays as it was written (nothing is rolled back).
C9_SingleWritePerLocale ==
    /\ \A l \in Selected : Cardinality(WriteCalls(l)) <= 1
    /\ \A j \in 1..Len(responses) :
          responses[j].kind = "write" =>
             LET l == responses[j].locale IN
             IF responses[j].outcome = "ok"
             THEN /\ status[l] = Success
                  /\ remote[l] = Body(calls[CHOOSE i \in WriteCalls(l) : TRUE].body)
             ELSE /\ status[l] = WriteFailed(responses[j].outcome)
                  /\ ~remote[l].written

\* A completed run of two locales: the first written, the second failed.
C9_Witness ==
    /\ pc = "completed"
    /\ Len(target_languages) = 2
    /\ status[target_languages[1]] = Success
    /\ status[target_languages[2]].kind = "write_error"
    /\ remote[target_languages[1]].written
    /\ Cardinality(WriteCalls(target_languages[2])) = 1

\* C10: the locales are taken one at a time in the order of selection: the
\* calls of the run follow that order, for one locale the translation before
\* the write; every call but the last has been answered before the next was
\* sent; at most one request is outstanding.
C10_OneLocaleAtATime ==
    /\ Cardinality(outstanding) <= 1
    /\ Len(responses) = Len(calls) - Cardinality(outstanding)
    /\ \A r \in outstanding : Len(calls) > 0 /\ r = calls[Len(calls)]
    /\ \A j \in 1..Len(responses) :
          responses[j].kind = calls[j].kind /\ responses[j].locale = calls[j].locale
    /\ \A m, n \in 1..Len(calls) :
          m < n =>
             /\ Pos(calls[m].locale) <= Pos(calls[n].locale)
             /\ Pos(calls[m].locale) = Pos(calls[n].locale) =>
                   calls[m].kind = "translate" /\ calls[n].kind = "write"

\* The translation and the write of the first locale are answered and the
\* request for the second is outstanding.
C10_Witness ==
    /\ pc = "translating"
    /\ index = 2
    /\ Len(calls) = 3
    /\ Len(responses) = 2
    /\ calls[1].locale = target_languages[1] /\ calls[2].kind = "write"
    /\ outstanding = { calls[3] }
    /\ calls[3].locale = target_languages[2]

\* ------------------------------------------------------- claims on extract
\* The specification's predicate on an override: it carries both a
\* propertyId field and a text field.
CarriesBoth(o) == o.propertyId \in PropIds /\ o.text.kind \in {"obj", "objnokey", "str"}

\* The plain string of a text field: its sub-object's text, '' when it has none.
PlainText(t) == IF t.kind = "obj" THEN t.val ELSE ""

QualifyingOverrides(node) ==
    IF node.hasPO THEN SelectSeq(node.propertyOverrides, CarriesBoth) ELSE <<>>

Qualifies(node) == QualifyingOverrides(node) /= <<>>

ExpectedNode(node) ==
    LET q == QualifyingOverrides(node) IN
    [nodeId |-> node.id,
     propertyOverrides |->
        [k \in 1..Len(q) |-> [propertyId |-> q[k].propertyId,
                              text |-> PlainText(q[k].text)]]]

ExpectedExtract(doc) ==
    LET kept == SelectSeq(doc, Qualifies) IN
    [i \in 1..Len(kept) |-> ExpectedNode(kept[i])]

\* C3: for every document, the output of parse_page_content holds exactly the
\* nodes of the document that have at least one override carrying both a
\* propertyId and a text field, in document order, each with exactly those
\* overrides; nodes without overrides and overrides missing a field do not
\* appear.
C3_ExtractExactlyQualifying ==
    extractResult /= NotCalled =>
        /\ extractResult.state = "returned"
        /\ extractResult.value = ExpectedExtract(document)

\* What is left of C3 on the calls that return: the output is the expected one.
ExtractReturnsExpected ==
    extractResult.state = "returned" =>
        extractResult.value = ExpectedExtract(document)

\* C7 as stated: every override of the output has a non-empty text.
C7_NoEmptyText ==
    extractResult.state = "returned" =>
        \A i \in 1..Len(extractResult.value) :
            \A k \in 1..Len(extractResult.value[i].propertyOverrides) :
                extractResult.value[i].propertyOverrides[k].text /= ""

\* The source overrides of the nodes with the given id.
SourceOverrides(doc, id) ==
    UNION { { doc[j].propertyOverrides[m] : m \in 1..Len(doc[j].propertyOverrides) } :
            j \in { j \in 1..Len(doc) : doc[j].id = id } }

OutputOverrides(out, id) ==
    UNION { { out[i].propertyOverrides[k] : k \in 1..Len(out[i].propertyOverrides) } :
            i \in { i \in 1..Len(out) : out[i].nodeId = id } }

\* C7 (amended): every override of the output comes from a source override
\* that has a text field, and its text is that field unwrapped; an override
\* whose text field is present but unwraps to '' is included, with text ''.
C7_TextFieldPresent ==
    extractResult.state = "returned" =>
        /\ \A i \in 1..Len(extractResult.value) :
              \A k \in 1..Len(extractResult.value[i].propertyOverrides) :
                 LET o == extractResult.value[i].propertyOverrides[k] IN
                 \E src \in SourceOverrides(document, extractResult.value[i].nodeId) :
                    /\ src.propertyId = o.propertyId
                    /\ src.text.kind /= "absent"
                    /\ o.text = PlainText(src.text)
        /\ \A j \in 1..Len(document) :
              \A m \in 1..Len(document[j].propertyOverrides) :
                 LET src == document[j].propertyOverrides[m] IN
                 (CarriesBoth(src) /\ PlainText(src.text) = "") =>
                    [propertyId |-> src.propertyId, text |-> ""]
                        \in OutputOverrides(extractResult.value, document[j].id)

\* An output override with the empty text.
C7_Witness ==
    /\ extractResult.state = "returned"
    /\ \E i \in 1..Len(extractResult.value) :
          \E k \in 1..Len(extractResult.value[i].propertyOverrides) :
             extractResult.value[i].propertyOverrides[k].text = ""

\* C8: parse_page_content returns for every document; it never raises.
C8_ExtractNeverRaises == extractResult.state /= "raised"

\* ---------------------------------------------- SpecTranslate: the function
InitTranslate ==
    /\ IdleExtract
    /\ tArgs \in [nodes : ExtractedInputs, tag : Tags, key : Keys]
    /\ tPc = "start"
    /\ tCalls = 0
    /\ tReply = [kind |-> "noreply"]
    /\ tRet = NotCalled
    /\ IdlePayload
    /\ IdleSession

\* Lines 178-215: the tests of the arguments, then the request to the service.
TranslateEnter ==
    /\ tPc = "start"
    /\ LET e == TranslatePrecheck(tArgs.nodes, tArgs.tag, tArgs.key) IN
       IF e /= ""
       THEN /\ tRet' = Returned([content |-> None, error |-> Error(e, "")])
            /\ tPc' = "returned"
            /\ UNCHANGED tCalls
       ELSE /\ tCalls' = tCalls + 1
            /\ tPc' = "waiting"
            /\ UNCHANGED tRet
    /\ UNCHANGED <<extractVars, tArgs, tReply, payloadVars, sessionVars>>

\* Lines 216-238: the service call ends and the function returns.
TranslateReturn ==
    /\ tPc = "waiting"
    /\ \E reply \in ServiceReplies :
          /\ tReply' = reply
          /\ tRet' = Returned(TranslateResult(reply))
    /\ tPc' = "returned"
    /\ UNCHANGED <<extractVars, tArgs, tCalls, payloadVars, sessionVars>>

NextTranslate == TranslateEnter \/ TranslateReturn

SpecTranslate == InitTranslate /\ [][NextTranslate]_vars

\* ----------------------------------------------------- claims on translate
\* The structure the caller expects of a reply: a sequence of records that
\* carry a nodeId, whose overrides, when there are any, carry a propertyId
\* and a text.
ExpectedStructure(v) ==
    /\ v.shape = "list"
    /\ \A i \in 1..Len(v.nodes) :
          /\ v.nodes[i].nodeId /= Absent
          /\ \A k \in 1..Len(v.nodes[i].propertyOverrides) :
                /\ v.nodes[i].propertyOverrides[k].propertyId /= Absent
                /\ v.nodes[i].propertyOverrides[k].text /= Absent

\* The reply is a text that does not hold the expected structure.
UnusableText(reply) ==
    /\ reply.kind = "text"
    /\ LET parsed == JsonLoads(reply.raw) IN
       parsed.state = "raised" \/ ~ExpectedStructure(parsed.value)

\* C4: for a reply that is present but does not parse as the expected
\* structure, the function returns the MalformedResponse error with the raw
\* reply text attached and no translated nodes; it does not raise and does
\* not return the reply as a success.
C4_UnusableReplyIsMalformed ==
    (tPc = "returned" /\ tReply.kind /= "noreply" /\ UnusableText(tReply)) =>
        /\ tRet.state = "returned"
        /\ tRet.value.content = None
        /\ tRet.value.error.msg = MalformedResponse
        /\ tRet.value.error.detail = tReply.raw

\* C5 as stated: each violated precondition gives its own error.
C5_EachPreconditionItsError ==
    tPc = "returned" =>
        /\ tArgs.nodes = <<>> => tRet.value.error.msg = EmptyContent
        /\ tArgs.tag = ""     => tRet.value.error.msg = MissingTarget
        /\ tArgs.key = ""     => tRet.value.error.msg = MissingCredentials

PreconditionViolated == tArgs.nodes = <<>> \/ tArgs.tag = "" \/ tArgs.key = ""

\* C5 (amended): when a precondition is violated the function returns no
\* translated nodes and sends nothing to the service, and the error is that
\* of the first violated precondition in the order content, target,
\* credentials; the three errors are distinct.
C5_FirstViolatedPrecondition ==
    /\ Cardinality({EmptyContent, MissingTarget, MissingCredentials}) = 3
    /\ PreconditionViolated => tPc /= "waiting" /\ tCalls = 0
    /\ (tPc = "returned" /\ PreconditionViolated) =>
          /\ tRet.state = "returned"
          /\ tRet.value.content = None
          /\ tArgs.nodes = <<>> => tRet.value.error.msg = EmptyContent
          /\ (tArgs.nodes /= <<>> /\ tArgs.tag = "") =>
                tRet.value.error.msg = MissingTarget
          /\ (tArgs.nodes /= <<>> /\ tArgs.tag /= "" /\ tArgs.key = "") =>
                tRet.value.error.msg = MissingCredentials

\* The function returned MissingCredentials: only the key was missing.
C5_Witness ==
    /\ tPc = "returned"
    /\ tArgs.key = ""
    /\ tArgs.nodes /= <<>>
    /\ tRet.value.error.msg = MissingCredentials
    /\ tCalls = 0

\* ------------------------------------------------- SpecPayload: the function
InitPayload ==
    /\ IdleExtract
    /\ IdleTranslate
    /\ wIn \in PayloadInputs
    /\ wOut = NotCalled
    /\ IdleSession

BuildPayload ==
    /\ wOut = NotCalled
    /\ wOut' = BuildRequestBody(wIn)
    /\ UNCHANGED <<extractVars, translateVars, wIn, sessionVars>>

NextPayload == BuildPayload

SpecPayload == InitPayload /\ [][NextPayload]_vars

\* ------------------------------------------------- claims on the request body
\* The argument is a sequence of Translated Nodes.
TranslatedNodes(v) == v.shape = "list" /\ \A i \in 1..Len(v.nodes) : v.nodes[i] \in TranslatedNodeSet

HasOverridesKey(entry) == "propertyOverrides" \in DOMAIN entry

\* C6: the request body holds one entry per translated node, in input order;
\* an entry is {nodeId, propertyOverrides: [{propertyId, text}]} with the
\* node's overrides in order, except that a node without a propertyOverrides
\* field gives an entry of nodeId only, while a node whose field is present
\* but empty gives an entry with an empty list.
C6_PayloadShape ==
    (wOut /= NotCalled /\ TranslatedNodes(wIn)) =>
        /\ wOut.state = "returned"
        /\ Len(wOut.value) = Len(wIn.nodes)
        /\ \A i \in 1..Len(wIn.nodes) :
              LET node == wIn.nodes[i]
                  entry == wOut.value[i] IN
              /\ entry.nodeId = node.nodeId
              /\ HasOverridesKey(entry) <=> node.hasPO
              /\ DOMAIN entry \subseteq {"nodeId", "propertyOverrides"}
              /\ node.hasPO =>
                    /\ Len(entry.propertyOverrides) = Len(node.propertyOverrides)
                    /\ \A k \in 1..Len(node.propertyOverrides) :
                          /\ DOMAIN entry.propertyOverrides[k] = {"propertyId", "text"}
                          /\ entry.propertyOverrides[k].propertyId
                                = node.propertyOverrides[k].propertyId
                          /\ entry.propertyOverrides[k].text
                                = node.propertyOverrides[k].text

\* A body built from a node without the field and a node with the empty
\* field: the first entry has the nodeId only, the second an empty list.
C6_Witness ==
    /\ wOut.state = "returned"
    /\ Len(wIn.nodes) = 2
    /\ ~wIn.nodes[1].hasPO
    /\ wIn.nodes[2].hasPO /\ wIn.nodes[2].propertyOverrides = <<>>
    /\ ~HasOverridesKey(wOut.value[1])
    /\ HasOverridesKey(wOut.value[2]) /\ wOut.value[2].propertyOverrides = <<>>

\* ------------------------------- SpecRoundTrip: extraction, then the request body
\* The identity translation: the service writes back the JSON it was given
\* (line 204 sends json.dumps(parsed_nodes)), so every node is a record that
\* carries its 'propertyOverrides' key.
IdentityTranslation(nodes) ==
    [i \in 1..Len(nodes) |-> Node(nodes[i].nodeId, TRUE, nodes[i].propertyOverrides)]

\* Lines 253-272 applied to what parse_page_content returned.
BuildFromExtract ==
    /\ extractResult.state = "returned"
    /\ wOut = NotCalled
    /\ wIn' = JList(IdentityTranslation(extractResult.value))
    /\ wOut' = BuildRequestBody(JList(IdentityTranslation(extractResult.value)))
    /\ UNCHANGED <<extractVars, translateVars, sessionVars>>

NextRoundTrip == Extract \/ BuildFromExtract

SpecRoundTrip == InitExtract /\ [][NextRoundTrip]_vars

\* C11: for every document, the request body built from the extracted nodes
\* (identity translation) has the same set of (nodeId, propertyId) pairs as
\* the extracted nodes, node by node, and an entry lacks propertyOverrides
\* exactly when extraction produced no overrides for its node.
C11_RoundTripShape ==
    wOut /= NotCalled =>
        /\ wOut.state = "returned"
        /\ PairsOfBody(wOut.value) = PairsOfNodes(extractResult.value)
        /\ Len(wOut.value) = Len(extractResult.value)
        /\ \A i \in 1..Len(extractResult.value) :
              /\ wOut.value[i].nodeId = extractResult.value[i].nodeId
              /\ ~HasOverridesKey(wOut.value[i])
                    <=> extractResult.value[i].propertyOverrides = <<>>

\* A body of two pairs built from a document of which extraction dropped an
\* override.
C11_Witness ==
    /\ wOut.state = "returned"
    /\ Cardinality(PairsOfBody(wOut.value)) = 2
    /\ PairsOfBody(wOut.value) = PairsOfNodes(extractResult.value)
    /\ \E i \in 1..Len(document) : ~HasOverrides(document[i])

\* ------------------------------------------------ more claims on the run
\* The reply of the service is one translate returns without error: a JSON
\* text (an exception, no content and a text that is not JSON give an error).
ReturnedWithoutError(raw) == \E j \in JsonTexts : j.raw = raw

\* The value translate returns for such a reply.
ReturnedValue(raw) == (CHOOSE j \in JsonTexts : j.raw = raw).value

\* The body of a write holds the nodes, in order: the nodeId, and the
\* overrides (propertyId and text, in order) of a node that has the key.
BodyCarries(body, nodes) ==
    /\ Len(body) = Len(nodes)
    /\ \A k \in 1..Len(nodes) :
          /\ body[k].nodeId = nodes[k].nodeId
          /\ HasOverridesKey(body[k]) <=> nodes[k].hasPO
          /\ nodes[k].hasPO =>
                body[k].propertyOverrides
                   = [n \in 1..Len(nodes[k].propertyOverrides) |->
                        [propertyId |-> nodes[k].propertyOverrides[n].propertyId,
                         text |-> nodes[k].propertyOverrides[n].text]]

\* C12: a write call for a locale is sent only right after the translation
\* call of that locale, in the same cycle, returned without error; it carries
\* the id of the selected page, the id of that locale and exactly the nodes
\* translate returned for that locale; a locale whose translation returned an
\* error gets no write call.
C12_WriteFollowsItsTranslation ==
    /\ \A i \in 1..Len(calls) :
          calls[i].kind = "write" =>
             /\ i > 1
             /\ calls[i - 1].kind = "translate"
             /\ calls[i - 1].locale = calls[i].locale
             /\ responses[i - 1].kind = "translate"
             /\ responses[i - 1].locale = calls[i].locale
             /\ ReturnedWithoutError(responses[i - 1].outcome)
             /\ ReturnedValue(responses[i - 1].outcome).shape = "list"
             /\ BodyCarries(calls[i].body, ReturnedValue(responses[i - 1].outcome).nodes)
             /\ \E page \in Pages :
                   PageLabel(page) = selected_page /\ calls[i].page = page.id
             /\ \E l \in Locales :
                   l.label = calls[i].locale /\ calls[i].localeId = l.id
    /\ \A j \in 1..Len(responses) :
          (responses[j].kind = "translate"
             /\ ~ReturnedWithoutError(responses[j].outcome)) =>
                WriteCalls(responses[j].locale) = {}
    /\ \A l \in Selected :
          status[l].kind = "translate_error" => WriteCalls(l) = {}

\* A completed run on the page whose title has parentheses: the translation
\* of the first locale failed and it got no write, the second was written.
C12_Witness ==
    /\ pc = "completed"
    /\ Len(target_languages) = 2
    /\ selected_page = PageLabel(Page(<<"F", "A", "Q", " ", "(", "n", "e", "w", ")">>,
                                      <<"6", "b", "2">>))
    /\ status[target_languages[1]].kind = "translate_error"
    /\ Len(responses) = 3
    /\ WriteCalls(target_languages[1]) = {}
    /\ WriteCalls(target_languages[2]) = {3}
    /\ calls[3].page = <<"6", "b", "2">>
    /\ calls[3].body /= <<>>

\* C13: whenever the session holds a current_content, parsed_nodes holds what
\* parse_page_content gives for it, whatever View Content operations and runs
\* came before.
C13_ParsedNodesOfCurrentContent ==
    current_content.set =>
       /\ parsed_nodes.set
       /\ parse_page_content(current_content.nodes) = Returned(parsed_nodes.nodes)

\* The other two parts of C13: a content read that fails changes neither
\* current_content nor parsed_nodes, and no step of a run changes
\* parsed_nodes.
FailedFetchLeavesBoth ==
    [][ViewContentFail => UNCHANGED <<current_content, parsed_nodes>>]_vars

RunKeepsParsedNodes ==
    [][(StartRun \/ TranslateDone \/ WriteDone) => UNCHANGED parsed_nodes]_vars

====
